---- MODULE Spec2Model ----
(***************************************************************************)
(* A model of poc2/duplex/ssh.go: the SSH binding of the duplex channel    *)
(* protocol.  Five parts of the file are modelled, each with its own       *)
(* specification over the same variables:                                  *)
(*                                                                         *)
(*   SpecFrame  ssh_channel.WriteFrame / ssh_channel.ReadFrame over the    *)
(*              ordered byte stream of one sub-channel;                    *)
(*   Spec       ssh_peerConnection.Open on one side of an established      *)
(*              connection and ssh_acceptChannels, with its handler        *)
(*              goroutines, on the other side;                             *)
(*   SpecConn   newPeerConnection_ssh (dialing side) of one connection,    *)
(*              with ssh_handleConn on the accepting side;                 *)
(*   SpecListen newPeerListener_ssh / ssh_handleConn serving the raw       *)
(*              connections of remote initiators;                          *)
(*   SpecDispatch one connection from dial to the dispatch loops that      *)
(*              ssh_acceptChannels runs on its two sides.                  *)
(*                                                                         *)
(* Strings and byte slices are sequences of bytes (0..255).                *)
(***************************************************************************)
EXTENDS Integers, Sequences, FiniteSets, TLC

\* ------------------------------------------------------------------ bounds
\* Longest payload handed to WriteFrame.
MaxPayload == 2
\* Number of frames written on the stream.
MaxFrames == 2

\* Number of channel-opens issued on the connection.
MaxOpens == 2

\* Number of raw connections made to the listener.
MaxConns == 2
\* Number of out-of-band requests a connection's remote side sends the
\* initiator besides the accepting side's own greeting.
MaxReqs == 2

\* Values of a payload byte.
PayloadBytes == {0, 7}

VARIABLES
    \* --- frames: one sub-channel's byte stream, writer to reader
    stream,      \* bytes written by c.Write and not yet returned by c.Read
    wrote,       \* payloads passed to WriteFrame, in order
    wire,        \* every byte c.Write has put on the stream, in order
    got,         \* frames ReadFrame returned without error, in order
    fpc,         \* position of the ReadFrame call: "hdr" or "body"
    bytes,       \* ReadFrame's 4-byte header buffer
    streamEnd,   \* the stream has ended: the writer closed it or the
                 \* transport failed
    lost,        \* how many of the bytes written the stream did not deliver
    \* --- channels: one established connection, opener side and accepting side
    opens,       \* channel-opens sent to the accepting side, in order; the
                 \* i-th is the ssh.NewChannel the loop receives i-th
    opened,      \* Open calls that have returned: error or the Channel
    running,     \* ssh_acceptChannels has been called on the accepting side
    newCh,       \* ssh_acceptChannels' loop variable: index into opens, 0
                 \* before the first iteration
    meta,        \* ssh_acceptChannels' variable `var meta ssh_channelData`
    handler,     \* the goroutine forked in iteration i: pc and locals
    decided,     \* per channel-open: the terminal response it has got
    incomingCh,  \* Channels pushed to peer.incomingCh, in order
    \* --- connections: the accepting Peer, and the dialing Peer of connection 1
    option,      \* the two Peers' options: OptName and OptPrivateKey
    lpc,         \* newPeerListener_ssh and its accept loop: "unbound" (not
                 \* yet called), "bindError", "accepting", "stopped"
    listeners,   \* the Peer's registry of listeners: the keys type://address
    unbinds,     \* the keys the accept loop has passed to peer.Unbind
    inbound,     \* per connection and side, how many channel-opens the
                 \* transport has queued on that side's chans
    ranged,      \* per connection and side, how many of them that side's
                 \* ssh_acceptChannels loop has received
    rawConn,     \* per connection, the net.Conn: "none", "pending" (dialed,
                 \* not yet accepted), "open", "closed"
    offer,       \* per connection, what the dialing side offers in the
                 \* handshake: its public key, its user name, its address
    hpc,         \* per connection, the position of ssh_handleConn
    hs,          \* per connection, the outcome of ssh.NewServerConn
    greet,       \* per connection, the outcome of SendRequest("@duplex-greeting")
    conns,       \* peer.conns, keyed by conn.RemoteAddr().String()
    lock,        \* holder of the Peer's lock (0: nobody)
    reqs,        \* per connection, the out-of-band requests sent to the
                 \* dialing side, in order
    replies,     \* per connection, the reply each of those requests has got
    dpc,         \* per connection, the position of newPeerConnection_ssh
    rpc,         \* per connection, the position of its request goroutine
    rnext,       \* per connection, how many requests that goroutine took
    dconn        \* per connection, the peerConnection the dial returned

frameVars == <<stream, wrote, wire, got, fpc, bytes, streamEnd, lost>>
chanVars == <<opens, opened, running, newCh, meta, handler, decided, incomingCh>>
listenVars == <<lpc, listeners, unbinds>>
dispatchVars == <<inbound, ranged>>
connVars == <<option, listenVars, dispatchVars, rawConn, offer, hpc, hs, greet,
              conns, lock, reqs, replies, dpc, rpc, rnext, dconn>>
vars == <<frameVars, chanVars, connVars>>

\* ----------------------------------------------------------------- helpers
Min(a, b) == IF a < b THEN a ELSE b

Zeros(n) == [i \in 1..n |-> 0]

Take(s, n) == SubSeq(s, 1, n)
Drop(s, n) == SubSeq(s, n + 1, Len(s))

\* All sequences over S of length at most n.
SeqsUpTo(S, n) == UNION {[1..k -> S] : k \in 0..n}

\* byte(n>>24), byte(n>>16), byte(n>>8), byte(n) of n = uint32(len(frame)).
\* Every length of the model is far below 2^32, where uint32() is the identity.
PutUint32(n) ==
    <<(n \div 16777216) % 256, (n \div 65536) % 256, (n \div 256) % 256, n % 256>>

\* binary.BigEndian.Uint32 of a 4-byte buffer.
Uint32(b) == b[1] * 16777216 + b[2] * 65536 + b[3] * 256 + b[4]

\* ------------------------------------------------------------------ frames
\* The buffer WriteFrame hands to c.Write: the length prefix, then the frame.
FrameBuffer(frame) == PutUint32(Len(frame)) \o frame

\* make([]byte, n) after a Read that stored the bytes `data` at its start:
\* the buffer's length and its filled prefix; the rest of it is still zero.
Buf(n, data) == [len |-> n, data |-> data]

\* The i-th byte of such a buffer.
BufAt(b, i) == IF i <= Len(b.data) THEN b.data[i] ELSE 0

\* c.Read(buf) of a len-k buffer returns some n bytes, 1 <= n <= k, of those
\* that have arrived: a Read never waits to fill the buffer.
ReadSizes(k) == 1..Min(k, Len(stream))

FrameIdle ==
    /\ stream = <<>>
    /\ wrote = <<>>
    /\ wire = <<>>
    /\ got = <<>>
    /\ fpc = "hdr"
    /\ bytes = Zeros(4)
    /\ streamEnd = FALSE
    /\ lost = 0

\* ssh_channel.WriteFrame: one c.Write of prefix and frame.
WriteFrame(frame) ==
    /\ Len(wrote) < MaxFrames
    /\ ~streamEnd
    /\ stream' = stream \o FrameBuffer(frame)
    /\ wire' = wire \o FrameBuffer(frame)
    /\ wrote' = Append(wrote, frame)
    /\ UNCHANGED <<got, fpc, bytes, streamEnd, lost, chanVars, connVars>>

\* ssh_channel.ReadFrame, first half: bytes := make([]byte, 4); c.Read(bytes).
\* The count Read returns is dropped.
ReadFrameHeader(n) ==
    /\ fpc = "hdr"
    /\ n \in ReadSizes(4)
    /\ bytes' = Take(stream, n) \o Zeros(4 - n)
    /\ stream' = Drop(stream, n)
    /\ fpc' = "body"
    /\ UNCHANGED <<wrote, wire, got, streamEnd, lost, chanVars, connVars>>

\* ssh_channel.ReadFrame, second half: length from the header buffer, frame :=
\* make([]byte, length), c.Read(frame), return frame.  A Read into an empty
\* buffer returns at once.
ReadFrameBody(n) ==
    /\ fpc = "body"
    /\ LET length == Uint32(bytes)
       IN  \/ /\ length = 0
              /\ n = 0
              /\ got' = Append(got, Buf(0, <<>>))
              /\ stream' = stream
           \/ /\ length > 0
              /\ n \in ReadSizes(length)
              /\ got' = Append(got, Buf(length, Take(stream, n)))
              /\ stream' = Drop(stream, n)
    /\ fpc' = "hdr"
    /\ bytes' = Zeros(4)
    /\ UNCHANGED <<wrote, wire, streamEnd, lost, chanVars, connVars>>

\* The stream ends: the writer closes it, or the transport fails and the last
\* bytes written, all but m of those not yet read, never arrive.
StreamEnd(m) ==
    /\ ~streamEnd
    /\ m \in 0..Len(stream)
    /\ streamEnd' = TRUE
    /\ lost' = Len(stream) - m
    /\ stream' = Take(stream, m)
    /\ UNCHANGED <<wrote, wire, got, fpc, bytes, chanVars, connVars>>

\* ssh_channel.ReadFrame, lines 202-205 and 208-212: on a stream that has
\* ended and has no bytes left c.Read returns an error, and ReadFrame returns
\* nil and the error.  The caller stops reading.
ReadFrameError ==
    /\ fpc \in {"hdr", "body"}
    /\ fpc = "body" => Uint32(bytes) > 0
    /\ streamEnd
    /\ stream = <<>>
    /\ fpc' = "error"
    /\ bytes' = Zeros(4)
    /\ UNCHANGED <<stream, wrote, wire, got, streamEnd, lost, chanVars, connVars>>

\* ---------------------------------------------------------------- metadata
\* ssh.Marshal / ssh.Unmarshal of the transport library, as used at the call
\* sites: a string is a uint32 length and its bytes; a []string is a
\* name-list, one string holding the elements joined by commas.
Comma == 44

RECURSIVE JoinNameList(_)
JoinNameList(l) ==
    IF l = <<>> THEN <<>>
    ELSE IF Len(l) = 1 THEN l[1]
    ELSE l[1] \o <<Comma>> \o JoinNameList(Tail(l))

RECURSIVE SplitNameList(_)
SplitNameList(s) ==
    IF \E i \in 1..Len(s) : s[i] = Comma
    THEN LET i == CHOOSE j \in 1..Len(s) :
                      s[j] = Comma /\ \A k \in 1..(j - 1) : s[k] # Comma
         IN  <<Take(s, i - 1)>> \o SplitNameList(Drop(s, i))
    ELSE <<s>>

MarshalString(s) == PutUint32(Len(s)) \o s

\* ssh.Marshal(meta) of an ssh_channelData.
Marshal(m) == MarshalString(m.Service) \o MarshalString(JoinNameList(m.Headers))

\* parseString: the length-prefixed string at the start of data, and the rest.
ParseString(data) ==
    IF Len(data) < 4 \/ Len(data) < 4 + Uint32(Take(data, 4))
    THEN [ok |-> FALSE, s |-> <<>>, rest |-> <<>>]
    ELSE LET n == Uint32(Take(data, 4))
         IN  [ok |-> TRUE, s |-> SubSeq(data, 5, 4 + n), rest |-> Drop(data, 4 + n)]

\* parseNameList: an empty string is the empty list.
ParseNameList(data) ==
    LET p == ParseString(data)
    IN  [ok |-> p.ok,
         l |-> IF p.ok /\ p.s # <<>> THEN SplitNameList(p.s) ELSE <<>>,
         rest |-> p.rest]

\* ---------------------------------------------------------------- channels
ChannelData(service, headers) == [Service |-> service, Headers |-> headers]

\* &ssh_channel{ch, meta}: the embedded ssh_channelData is a copy of meta.
SshChannel(ch, m) == [ch |-> ch, ssh_channelData |-> m]

\* Mutant: the Channel refers to the accept loop's meta instead of holding a copy.
ServiceOfSharedMeta(c) == meta.Service

\* ssh_channel.Service and ssh_channel.Headers.
Service(c) == c.ssh_channelData.Service
Headers(c) == c.ssh_channelData.Headers

\* Arguments passed to Open: ("a", []), ("b", ["v"]) and ("", ["w"]).
OpenArgs ==
    {[service |-> <<97>>, headers |-> <<>>],
     [service |-> <<98>>, headers |-> << <<118>> >>],
     [service |-> <<>>, headers |-> << <<119>> >>]}

\* Channel-opens a peer that is not this program can send: another channel
\* type, and a @duplex open whose extra data does not decode (the service
\* string "x" with no header list after it).
ForeignOpens ==
    {[chanType |-> "session", extraData |-> <<>>],
     [chanType |-> "@duplex", extraData |-> MarshalString(<<120>>)]}

Undecided == [state |-> "none", reason |-> "", message |-> ""]
NoHandler == [pc |-> "none", data |-> <<>>, ch |-> 0, service |-> <<>>]

ChanOf(isRunning) ==
    /\ opens = <<>>
    /\ opened = <<>>
    /\ running = isRunning
    /\ newCh = 0
    /\ meta = ChannelData(<<>>, <<>>)
    /\ handler = [i \in 1..MaxOpens |-> NoHandler]
    /\ decided = [i \in 1..MaxOpens |-> Undecided]
    /\ incomingCh = <<>>

\* ssh_acceptChannels called and nothing received yet; not yet called.
ChanIdle == ChanOf(TRUE)
ChanNone == ChanOf(FALSE)

\* ssh_peerConnection.Open, up to c.conn.OpenChannel("@duplex",
\* ssh.Marshal(meta)) having sent the channel-open; the call then waits for
\* the peer's response.
Open(service, headers) ==
    /\ Len(opens) < MaxOpens
    /\ opens' = Append(opens, [chanType |-> "@duplex",
                               extraData |-> Marshal(ChannelData(service, headers)),
                               by |-> "Open",
                               meta |-> ChannelData(service, headers)])
    /\ opened' = Append(opened, [state |-> "waiting"])
    /\ UNCHANGED <<running, newCh, meta, handler, decided, incomingCh, frameVars, connVars>>

\* ssh_peerConnection.Open, from the response on: an error if the open was
\* rejected, else &ssh_channel{ch, meta} with Open's own meta.
OpenReturn(i) ==
    /\ i \in 1..Len(opens)
    /\ opened[i].state = "waiting"
    /\ decided[i].state # "none"
    /\ opened' = [opened EXCEPT ![i] =
                    IF decided[i].state = "accepted"
                    THEN [state |-> "returned",
                          channel |-> SshChannel(i, opens[i].meta)]
                    ELSE [state |-> "error"]]
    /\ UNCHANGED <<opens, running, newCh, meta, handler, decided, incomingCh, frameVars, connVars>>

\* A channel-open from a peer that is not this program.
ForeignOpen(o) ==
    /\ Len(opens) < MaxOpens
    /\ opens' = Append(opens, [chanType |-> o.chanType, extraData |-> o.extraData,
                               by |-> "foreign", meta |-> ChannelData(<<>>, <<>>)])
    /\ opened' = Append(opened, [state |-> "foreign"])
    /\ UNCHANGED <<running, newCh, meta, handler, decided, incomingCh, frameVars, connVars>>

\* ssh_acceptChannels, one iteration: `for newCh := range chans` assigns the
\* loop's one variable newCh, and a "@duplex" open forks a handler goroutine,
\* whose closure refers to newCh and meta, not to copies of them.
AcceptLoop ==
    /\ running
    /\ newCh < Len(opens)
    /\ newCh' = newCh + 1
    /\ handler' = IF opens[newCh + 1].chanType = "@duplex"
                  THEN [handler EXCEPT ![newCh + 1].pc = "extra"]
                  ELSE handler
    /\ UNCHANGED <<opens, opened, running, meta, decided, incomingCh, frameVars, connVars>>

\* newCh.Reject(ssh.UnknownChannelType, message): the first response to a
\* channel-open is the terminal one; a later Accept or Reject of it returns
\* an error, which the handler drops.
Reject(target, message) ==
    IF decided[target].state = "none"
    THEN [decided EXCEPT ![target] = [state |-> "rejected",
                                      reason |-> "UnknownChannelType",
                                      message |-> message]]
    ELSE decided

\* Handler, line 239: the argument newCh.ExtraData() is evaluated.
HandlerExtraData(i) ==
    /\ handler[i].pc = "extra"
    /\ handler' = [handler EXCEPT ![i].pc = "service",
                                  ![i].data = opens[newCh].extraData]
    /\ UNCHANGED <<opens, opened, running, newCh, meta, decided, incomingCh, frameVars, connVars>>

\* Handler, line 239: ssh.Unmarshal stores the first field, meta.Service.
HandlerUnmarshalService(i) ==
    /\ handler[i].pc = "service"
    /\ LET p == ParseString(handler[i].data)
       IN  IF p.ok
           THEN /\ meta' = [meta EXCEPT !.Service = p.s]
                /\ handler' = [handler EXCEPT ![i].pc = "headers", ![i].data = p.rest]
           ELSE /\ meta' = meta
                /\ handler' = [handler EXCEPT ![i].pc = "parseError", ![i].data = <<>>]
    /\ UNCHANGED <<opens, opened, running, newCh, decided, incomingCh, frameVars, connVars>>

\* Handler, line 239: ssh.Unmarshal stores the second field, meta.Headers,
\* and fails if data is left over.
HandlerUnmarshalHeaders(i) ==
    /\ handler[i].pc = "headers"
    /\ LET p == ParseNameList(handler[i].data)
       IN  /\ meta' = IF p.ok THEN [meta EXCEPT !.Headers = p.l] ELSE meta
           /\ handler' = [handler EXCEPT
                            ![i].pc = IF p.ok /\ p.rest = <<>> THEN "check" ELSE "parseError",
                            ![i].data = <<>>]
    /\ UNCHANGED <<opens, opened, running, newCh, decided, incomingCh, frameVars, connVars>>

\* Handler, lines 240-243: err != nil.
HandlerRejectParse(i) ==
    /\ handler[i].pc = "parseError"
    /\ decided' = Reject(newCh, "failed to parse channel data")
    /\ handler' = [handler EXCEPT ![i].pc = "done"]
    /\ UNCHANGED <<opens, opened, running, newCh, meta, incomingCh, frameVars, connVars>>

\* Handler, line 244: meta.Service == "" is evaluated.
HandlerCheckService(i) ==
    /\ handler[i].pc = "check"
    /\ handler' = [handler EXCEPT ![i].pc = IF meta.Service = <<>> THEN "emptyService"
                                                                  ELSE "accept"]
    /\ UNCHANGED <<opens, opened, running, newCh, meta, decided, incomingCh, frameVars, connVars>>

\* Handler, lines 245-246.
HandlerRejectEmpty(i) ==
    /\ handler[i].pc = "emptyService"
    /\ decided' = Reject(newCh, "empty service")
    /\ handler' = [handler EXCEPT ![i].pc = "done"]
    /\ UNCHANGED <<opens, opened, running, newCh, meta, incomingCh, frameVars, connVars>>

\* Handler, lines 248-253: newCh.Accept(); an open that already has its
\* response gives an error, which is logged.
HandlerAccept(i) ==
    /\ handler[i].pc = "accept"
    /\ IF decided[newCh].state = "none"
       THEN /\ decided' = [decided EXCEPT ![newCh] =
                                [state |-> "accepted", reason |-> "", message |-> ""]]
            /\ handler' = [handler EXCEPT ![i].pc = "push", ![i].ch = newCh]
       ELSE /\ decided' = decided
            /\ handler' = [handler EXCEPT ![i].pc = "done"]
    /\ UNCHANGED <<opens, opened, running, newCh, meta, incomingCh, frameVars, connVars>>

\* Handler, line 254: the composite literal copies meta field by field; here
\* meta.Service is read.
HandlerCopyService(i) ==
    /\ handler[i].pc = "push"
    /\ handler' = [handler EXCEPT ![i].pc = "push2", ![i].service = meta.Service]
    /\ UNCHANGED <<opens, opened, running, newCh, meta, decided, incomingCh, frameVars, connVars>>

\* Handler, line 254: meta.Headers is read and the Channel is sent to
\* peer.incomingCh.
HandlerPush(i) ==
    /\ handler[i].pc = "push2"
    /\ incomingCh' = Append(incomingCh,
            SshChannel(handler[i].ch, ChannelData(handler[i].service, meta.Headers)))
    /\ handler' = [handler EXCEPT ![i] = [NoHandler EXCEPT !.pc = "done"]]
    /\ UNCHANGED <<opens, opened, running, newCh, meta, decided, frameVars, connVars>>

\* ------------------------------------------------------------- connections
Conns == 1..MaxConns

\* OptName values ("al" and the empty name) and keys: OptPrivateKey names a
\* key pair, PublicKeyBytes its public half as key.Marshal() gives it.
Names == {<<97, 108>>, <<>>}
PrivateKeys == {"K1", "K2"}
PublicKeyBytes(pk) == IF pk = "K1" THEN <<7, 1>> ELSE <<7, 2>>

\* conn.RemoteAddr().String() of an accepted connection.
RemoteAddrs == {"10.0.0.2:4000", "10.0.0.2:4001"}

\* Mutant: the callback compares the first byte of the two keys only.
PublicKeyCallbackFirstByte(key) ==
    key[1] = PublicKeyBytes(option.acceptor.OptPrivateKey)[1]

\* The ServerConfig's PublicKeyCallback: bytes.Equal(key.Marshal(),
\* pk.PublicKey().Marshal()); TRUE is &ssh.Permissions{}, FALSE "unauthorized".
PublicKeyCallback(key) == key = PublicKeyBytes(option.acceptor.OptPrivateKey)

\* Mutant: the greeting carries sshConn.User(), the name the store at line
\* 133 uses, instead of the Peer's own name.
GreetingNameIsUser(c) == offer[c].user

\* peer.GetOption(OptName) of the accepting Peer, line 138.
GreetingName(c) == option.acceptor.OptName

\* ssh_peerConnection.Name.
Name(pc) == pc.name

\* ssh.Marshal(&ssh_greetingPayload{name}) and ssh.Unmarshal(r.Payload,
\* &greeting): the one string field, and nothing after it.
MarshalGreeting(name) == MarshalString(name)
UnmarshalGreeting(payload) ==
    LET p == ParseString(payload)
    IN  [ok |-> p.ok /\ p.rest = <<>>, Name |-> p.s]

GreetingRequest(name, from) ==
    [type |-> "@duplex-greeting", payload |-> MarshalGreeting(name), from |-> from]

\* Requests the remote side of a connection may send the initiator besides
\* the greeting of ssh_handleConn: a keepalive, its greeting once more, and a
\* @duplex-greeting whose payload does not decode.
RemoteRequests ==
    {[type |-> "keepalive@openssh.com", payload |-> <<>>, from |-> "remote"],
     GreetingRequest(option.acceptor.OptName, "remote"),
     [type |-> "@duplex-greeting", payload |-> <<0, 0>>, from |-> "remote"]}

NoOffer == [key |-> <<>>, user |-> <<>>, addr |-> ""]
NoConn == [addr |-> "", name |-> <<>>, conn |-> 0]

\* The ssh_peerConnection ssh_handleConn stores for connection c.
AcceptedConn(c) ==
    [addr |-> "tcp://" \o offer[c].addr, name |-> offer[c].user, conn |-> c]

\* The index in reqs[c] of the greeting ssh_handleConn sent (0: not sent).
GreetingIndex(c) ==
    IF \E k \in 1..Len(reqs[c]) : reqs[c][k].from = "acceptor"
    THEN CHOOSE k \in 1..Len(reqs[c]) : reqs[c][k].from = "acceptor"
    ELSE 0

\* The listener's transport type and address, and the key typ + "://" + addr
\* the Peer knows a listener by.
ListenTyp == "tcp"
ListenAddr == "10.0.0.1:22"
ListenerKey(typ, addr) == typ \o "://" \o addr

\* The two sides of a connection, and no channel-opens on either.
Sides == {"acceptor", "dialer"}
NoOpens == [side \in Sides |-> 0]

\* The Peer's registry of listeners: the caller of newPeerListener_ssh files
\* the listener it got under its key, and peer.Unbind(key) removes it.
Bind(key) == listeners \cup {key}
Unbind(key) == listeners \ {key}

\* Before newPeerListener_ssh is called and before any connection.
ConnIdle ==
    /\ option \in [acceptor : [OptName : Names, OptPrivateKey : PrivateKeys],
                   dialer : [OptName : Names, OptPrivateKey : PrivateKeys]]
    /\ lpc = "unbound"
    /\ listeners = {}
    /\ unbinds = <<>>
    /\ inbound = [c \in Conns |-> NoOpens]
    /\ ranged = [c \in Conns |-> NoOpens]
    /\ rawConn = [c \in Conns |-> "none"]
    /\ offer = [c \in Conns |-> NoOffer]
    /\ hpc = [c \in Conns |-> "none"]
    /\ hs = [c \in Conns |-> "none"]
    /\ greet = [c \in Conns |-> "none"]
    /\ conns = [a \in RemoteAddrs |-> NoConn]
    /\ lock = 0
    /\ reqs = [c \in Conns |-> <<>>]
    /\ replies = [c \in Conns |-> <<>>]
    /\ dpc = [c \in Conns |-> "idle"]
    /\ rpc = [c \in Conns |-> "none"]
    /\ rnext = [c \in Conns |-> 0]
    /\ dconn = [c \in Conns |-> NoConn]

\* newPeerListener_ssh, lines 105-119: net.Listen fails and the error is
\* returned, or the accept loop's goroutine is started and the listener is
\* returned to the caller, who files it.
NewPeerListener(bound) ==
    /\ lpc = "unbound"
    /\ IF bound
       THEN /\ lpc' = "accepting"
            /\ listeners' = Bind(ListenerKey(ListenTyp, ListenAddr))
       ELSE /\ lpc' = "bindError"
            /\ listeners' = listeners
    /\ UNCHANGED <<option, unbinds, dispatchVars, rawConn, offer, hpc, hs, greet, conns,
                   lock, reqs, replies, dpc, rpc, rnext, dconn, frameVars, chanVars>>

\* Mutant: the loop returns on the error without calling peer.Unbind.
ListenerAcceptErrorNoUnbind ==
    /\ lpc = "accepting"
    /\ lpc' = "stopped"
    /\ UNCHANGED <<option, listeners, unbinds, dispatchVars, rawConn, offer, hpc, hs,
                   greet, conns, lock, reqs, replies, dpc, rpc, rnext, dconn,
                   frameVars, chanVars>>

\* The accept loop, lines 111-115: listener.Accept() returns an error, the
\* loop calls peer.Unbind(typ + "://" + addr) and returns.
ListenerAcceptError ==
    /\ lpc = "accepting"
    /\ unbinds' = Append(unbinds, ListenerKey(ListenTyp, ListenAddr))
    /\ listeners' = Unbind(ListenerKey(ListenTyp, ListenAddr))
    /\ lpc' = "stopped"
    /\ UNCHANGED <<option, dispatchVars, rawConn, offer, hpc, hs, greet, conns,
                   lock, reqs, replies, dpc, rpc, rnext, dconn, frameVars, chanVars>>

\* Mutant: the loop calls ssh_handleConn itself instead of starting it with
\* `go`, so it is back at listener.Accept() only when the handler has returned.
ListenerAcceptInline(c) ==
    /\ lpc = "accepting"
    /\ \A d \in Conns : hpc[d] \in {"none", "returned"}
    /\ rawConn[c] = "pending"
    /\ rawConn' = [rawConn EXCEPT ![c] = "open"]
    /\ hpc' = [hpc EXCEPT ![c] = "handshake"]
    /\ UNCHANGED <<option, listenVars, dispatchVars, offer, hs, greet, conns, lock,
                   reqs, replies, dpc, rpc, rnext, dconn, frameVars, chanVars>>

\* The listener's accept loop, lines 110-117: listener.Accept() returns a
\* connection and `go ssh_handleConn(conn, config, peer)` starts its handler.
ListenerAccept(c) ==
    /\ lpc = "accepting"
    /\ rawConn[c] = "pending"
    /\ rawConn' = [rawConn EXCEPT ![c] = "open"]
    /\ hpc' = [hpc EXCEPT ![c] = "handshake"]
    /\ UNCHANGED <<option, listenVars, dispatchVars, offer, hs, greet, conns, lock, reqs, replies,
                   dpc, rpc, rnext, dconn, frameVars, chanVars>>

\* ssh_handleConn returns: the deferred conn.Close() runs.
HandleConnReturn(c) ==
    /\ hpc' = [hpc EXCEPT ![c] = "returned"]
    /\ rawConn' = [rawConn EXCEPT ![c] = "closed"]

\* ssh_handleConn, lines 124-129: ssh.NewServerConn.  The handshake fails on
\* a closed connection and when PublicKeyCallback refuses the offered key.
HandleConnHandshake(c) ==
    /\ hpc[c] = "handshake"
    /\ IF rawConn[c] = "closed"
       THEN /\ hs' = [hs EXCEPT ![c] = "ioerror"]
            /\ HandleConnReturn(c)
       ELSE IF PublicKeyCallback(offer[c].key)
       THEN /\ hs' = [hs EXCEPT ![c] = "ok"]
            /\ hpc' = [hpc EXCEPT ![c] = "lock"]
            /\ rawConn' = rawConn
       ELSE /\ hs' = [hs EXCEPT ![c] = "unauthorized"]
            /\ HandleConnReturn(c)
    /\ UNCHANGED <<option, listenVars, dispatchVars, offer, greet, conns, lock, reqs, replies,
                   dpc, rpc, rnext, dconn, frameVars, chanVars>>

\* Mutant: the handler takes the lock as a reader does, without waiting for
\* the handler that holds it.
HandleConnLockNotExclusive(c) ==
    /\ hpc[c] = "lock"
    /\ lock' = c
    /\ hpc' = [hpc EXCEPT ![c] = "store"]
    /\ UNCHANGED <<option, listenVars, dispatchVars, rawConn, offer, hs, greet, conns,
                   reqs, replies, dpc, rpc, rnext, dconn, frameVars, chanVars>>

\* ssh_handleConn, line 130: peer.Lock().
HandleConnLock(c) ==
    /\ hpc[c] = "lock"
    /\ lock = 0
    /\ lock' = c
    /\ hpc' = [hpc EXCEPT ![c] = "store"]
    /\ UNCHANGED <<option, listenVars, dispatchVars, rawConn, offer, hs, greet, conns, reqs, replies,
                   dpc, rpc, rnext, dconn, frameVars, chanVars>>

\* ssh_handleConn, lines 131-135: peer.conns[conn.RemoteAddr().String()] = ...
HandleConnStore(c) ==
    /\ hpc[c] = "store"
    /\ conns' = [conns EXCEPT ![offer[c].addr] = AcceptedConn(c)]
    /\ hpc' = [hpc EXCEPT ![c] = "unlock"]
    /\ UNCHANGED <<option, listenVars, dispatchVars, rawConn, offer, hs, greet, lock, reqs, replies,
                   dpc, rpc, rnext, dconn, frameVars, chanVars>>

\* ssh_handleConn, line 136: peer.Unlock().
HandleConnUnlock(c) ==
    /\ hpc[c] = "unlock"
    /\ lock' = 0
    /\ hpc' = [hpc EXCEPT ![c] = "greet"]
    /\ UNCHANGED <<option, listenVars, dispatchVars, rawConn, offer, hs, greet, conns, reqs, replies,
                   dpc, rpc, rnext, dconn, frameVars, chanVars>>

\* ssh_handleConn, lines 137-138: SendRequest sends the greeting with the
\* Peer's OptName, or fails at once on a closed connection (lines 139-141).
HandleConnGreet(c) ==
    /\ hpc[c] = "greet"
    /\ IF rawConn[c] = "closed"
       THEN /\ greet' = [greet EXCEPT ![c] = "err"]
            /\ HandleConnReturn(c)
            /\ UNCHANGED <<reqs, replies>>
       ELSE /\ reqs' = [reqs EXCEPT ![c] =
                          Append(@, GreetingRequest(GreetingName(c), "acceptor"))]
            /\ replies' = [replies EXCEPT ![c] = Append(@, "none")]
            /\ hpc' = [hpc EXCEPT ![c] = "reply"]
            /\ UNCHANGED <<greet, rawConn>>
    /\ UNCHANGED <<option, listenVars, dispatchVars, offer, hs, conns, lock, dpc, rpc, rnext, dconn,
                   frameVars, chanVars>>

\* ssh_handleConn, lines 137-143: SendRequest returns with the reply, or with
\* an error once the connection is closed; `err != nil || !ok` returns, else
\* ssh_acceptChannels is called.
HandleConnReply(c) ==
    /\ hpc[c] = "reply"
    /\ LET reply == replies[c][GreetingIndex(c)]
       IN  /\ reply # "none" \/ rawConn[c] = "closed"
           /\ IF reply = "true"
              THEN /\ greet' = [greet EXCEPT ![c] = "ok"]
                   /\ hpc' = [hpc EXCEPT ![c] = "acceptChannels"]
                   /\ rawConn' = rawConn
              ELSE /\ greet' = [greet EXCEPT ![c] = IF reply = "false" THEN "nack" ELSE "err"]
                   /\ HandleConnReturn(c)
    /\ UNCHANGED <<option, listenVars, dispatchVars, offer, hs, conns, lock, reqs, replies,
                   dpc, rpc, rnext, dconn, frameVars, chanVars>>

\* ssh_handleConn, lines 143-144: ssh_acceptChannels returns when the
\* connection's channel of channel-opens is closed, and the handler returns.
HandleConnChannelsEnd(c) ==
    /\ hpc[c] = "acceptChannels"
    /\ rawConn[c] = "closed"
    /\ hpc' = [hpc EXCEPT ![c] = "returned"]
    /\ UNCHANGED <<option, listenVars, dispatchVars, rawConn, offer, hs, greet, conns, lock, reqs, replies,
                   dpc, rpc, rnext, dconn, frameVars, chanVars>>

\* The transport of an open connection is lost (network failure, or the
\* remote process ends).
TransportLost(c) ==
    /\ rawConn[c] = "open"
    /\ rawConn' = [rawConn EXCEPT ![c] = "closed"]
    /\ UNCHANGED <<option, listenVars, dispatchVars, offer, hpc, hs, greet, conns, lock, reqs, replies,
                   dpc, rpc, rnext, dconn, frameVars, chanVars>>

\* ssh_peerConnection.Disconnect: c.conn.Close() closes the connection.
Disconnect(pc) ==
    /\ pc # NoConn
    /\ rawConn[pc.conn] = "open"
    /\ rawConn' = [rawConn EXCEPT ![pc.conn] = "closed"]
    /\ UNCHANGED <<option, listenVars, dispatchVars, offer, hpc, hs, greet, conns, lock,
                   reqs, replies, dpc, rpc, rnext, dconn, frameVars, chanVars>>

\* The other side of connection c sends a channel-open: once the handshake is
\* done the transport queues it on this side's chans.
InboundOpen(c, side) ==
    /\ rawConn[c] = "open"
    /\ hs[c] = "ok"
    /\ side = "dialer" => dpc[c] \in {"nameCh", "returned"}
    /\ inbound[c][side] < MaxOpens
    /\ inbound' = [inbound EXCEPT ![c][side] = @ + 1]
    /\ UNCHANGED <<option, listenVars, ranged, rawConn, offer, hpc, hs, greet, conns, lock,
                   reqs, replies, dpc, rpc, rnext, dconn, frameVars, chanVars>>

\* Mutant: each side starts its dispatch loop as soon as the handshake is
\* done, beside the greeting instead of after it.
AcceptChannelsRangeBeforeGreeting(c, side) ==
    /\ IF side = "acceptor"
       THEN hpc[c] \in {"lock", "store", "unlock", "greet", "reply", "acceptChannels"}
       ELSE dpc[c] \in {"nameCh", "returned"}
    /\ ranged[c][side] < inbound[c][side]
    /\ ranged' = [ranged EXCEPT ![c][side] = @ + 1]
    /\ UNCHANGED <<option, listenVars, inbound, rawConn, offer, hpc, hs, greet, conns, lock,
                   reqs, replies, dpc, rpc, rnext, dconn, frameVars, chanVars>>

\* ssh_acceptChannels of one side of connection c, line 235: the loop receives
\* the next channel-open.  The accepting side runs the loop inside
\* ssh_handleConn (line 143), the dialing side in the goroutine started at
\* line 185.
AcceptChannelsRange(c, side) ==
    /\ IF side = "acceptor" THEN hpc[c] = "acceptChannels" ELSE dpc[c] = "returned"
    /\ ranged[c][side] < inbound[c][side]
    /\ ranged' = [ranged EXCEPT ![c][side] = @ + 1]
    /\ UNCHANGED <<option, listenVars, inbound, rawConn, offer, hpc, hs, greet, conns, lock,
                   reqs, replies, dpc, rpc, rnext, dconn, frameVars, chanVars>>

\* newPeerConnection_ssh, lines 149-160: the config offers the Peer's own
\* key and name, and net.Dial connects.
Dial(c, addr) ==
    /\ dpc[c] = "idle"
    /\ rawConn[c] = "none"
    /\ rawConn' = [rawConn EXCEPT ![c] = "pending"]
    /\ offer' = [offer EXCEPT ![c] =
                    [key |-> PublicKeyBytes(option.dialer.OptPrivateKey),
                     user |-> option.dialer.OptName,
                     addr |-> addr]]
    /\ dpc' = [dpc EXCEPT ![c] = "handshake"]
    /\ UNCHANGED <<option, listenVars, dispatchVars, hpc, hs, greet, conns, lock, reqs, replies,
                   rpc, rnext, dconn, frameVars, chanVars>>

\* newPeerConnection_ssh, lines 161-166: ssh.NewClientConn returns, with an
\* error if the handshake failed; else the request goroutine is started and
\* the call waits on nameCh.
DialHandshake(c) ==
    /\ dpc[c] = "handshake"
    /\ hs[c] # "none"
    /\ IF hs[c] = "ok"
       THEN /\ dpc' = [dpc EXCEPT ![c] = "nameCh"]
            /\ rpc' = [rpc EXCEPT ![c] = "range"]
       ELSE /\ dpc' = [dpc EXCEPT ![c] = "failed"]
            /\ rpc' = rpc
    /\ UNCHANGED <<option, listenVars, dispatchVars, rawConn, offer, hpc, hs, greet, conns, lock, reqs,
                   replies, rnext, dconn, frameVars, chanVars>>

\* The request goroutine, lines 167-181: the next request of `range reqs`.
\* A greeting that decodes leads to the send on nameCh; one that does not is
\* skipped (`continue`); any other request is replied to with false.
RequestRange(c) ==
    /\ rpc[c] = "range"
    /\ rnext[c] < Len(reqs[c])
    /\ rnext' = [rnext EXCEPT ![c] = @ + 1]
    /\ LET r == reqs[c][rnext[c] + 1]
       IN  IF r.type = "@duplex-greeting"
           THEN /\ rpc' = [rpc EXCEPT ![c] = IF UnmarshalGreeting(r.payload).ok
                                             THEN "nameCh" ELSE "range"]
                /\ replies' = replies
           ELSE /\ rpc' = rpc
                /\ replies' = [replies EXCEPT ![c][rnext[c] + 1] =
                                 IF rawConn[c] = "open" THEN "false" ELSE @]
    /\ UNCHANGED <<option, listenVars, dispatchVars, rawConn, offer, hpc, hs, greet, conns, lock, reqs,
                   dpc, dconn, frameVars, chanVars>>

\* The request goroutine, line 167: the connection is closed and every
\* request has been taken, so `range reqs` ends and the goroutine with it.
RequestRangeEnd(c) ==
    /\ rpc[c] = "range"
    /\ rnext[c] = Len(reqs[c])
    /\ rawConn[c] = "closed"
    /\ rpc' = [rpc EXCEPT ![c] = "exited"]
    /\ UNCHANGED <<option, listenVars, dispatchVars, rawConn, offer, hpc, hs, greet, conns, lock, reqs,
                   replies, dpc, rnext, dconn, frameVars, chanVars>>

\* Lines 175 and 184-190: nameCh is unbuffered, so `nameCh <- greeting.Name`
\* and `name := <-nameCh` happen together; newPeerConnection_ssh then starts
\* ssh_acceptChannels and returns the ssh_peerConnection.
NameCh(c) ==
    /\ rpc[c] = "nameCh"
    /\ dpc[c] = "nameCh"
    /\ dconn' = [dconn EXCEPT ![c] =
                    [addr |-> "tcp://" \o "10.0.0.1:22",
                     name |-> UnmarshalGreeting(reqs[c][rnext[c]].payload).Name,
                     conn |-> c]]
    /\ dpc' = [dpc EXCEPT ![c] = "returned"]
    /\ rpc' = [rpc EXCEPT ![c] = "reply"]
    /\ UNCHANGED <<option, listenVars, dispatchVars, rawConn, offer, hpc, hs, greet, conns, lock, reqs,
                   replies, rnext, frameVars, chanVars>>

\* The request goroutine, line 176: r.Reply(true, nil).
RequestReply(c) ==
    /\ rpc[c] = "reply"
    /\ replies' = [replies EXCEPT ![c][rnext[c]] = IF rawConn[c] = "open" THEN "true" ELSE @]
    /\ rpc' = [rpc EXCEPT ![c] = "range"]
    /\ UNCHANGED <<option, listenVars, dispatchVars, rawConn, offer, hpc, hs, greet, conns, lock, reqs,
                   dpc, rnext, dconn, frameVars, chanVars>>

\* The remote side sends the initiator a request of its own.
RemoteRequest(c, r) ==
    /\ rawConn[c] = "open"
    /\ hs[c] = "ok"
    /\ Cardinality({k \in 1..Len(reqs[c]) : reqs[c][k].from = "remote"}) < MaxReqs
    /\ reqs' = [reqs EXCEPT ![c] = Append(@, r)]
    /\ replies' = [replies EXCEPT ![c] = Append(@, "none")]
    /\ UNCHANGED <<option, listenVars, dispatchVars, rawConn, offer, hpc, hs, greet, conns, lock,
                   dpc, rpc, rnext, dconn, frameVars, chanVars>>

\* A dialing side that is not this program: it connects from some address,
\* offering some key and user name.
RemoteDial(c, key, addr) ==
    /\ rawConn[c] = "none"
    /\ \A d \in Conns : d < c => rawConn[d] # "none"
    /\ rawConn' = [rawConn EXCEPT ![c] = "pending"]
    /\ offer' = [offer EXCEPT ![c] = [key |-> key, user |-> <<98>>, addr |-> addr]]
    /\ UNCHANGED <<option, listenVars, dispatchVars, hpc, hs, greet, conns, lock, reqs, replies,
                   dpc, rpc, rnext, dconn, frameVars, chanVars>>

\* Such a dialing side answers the greeting request, with true or false.
RemoteReply(c, ok) ==
    /\ rawConn[c] = "open"
    /\ GreetingIndex(c) # 0
    /\ replies[c][GreetingIndex(c)] = "none"
    /\ replies' = [replies EXCEPT ![c][GreetingIndex(c)] = IF ok THEN "true" ELSE "false"]
    /\ UNCHANGED <<option, listenVars, dispatchVars, rawConn, offer, hpc, hs, greet, conns, lock, reqs,
                   dpc, rpc, rnext, dconn, frameVars, chanVars>>

\* ssh_handleConn for connection c.
HandleConn(c) ==
    \/ HandleConnHandshake(c)
    \/ HandleConnLock(c)
    \/ HandleConnStore(c)
    \/ HandleConnUnlock(c)
    \/ HandleConnGreet(c)
    \/ HandleConnReply(c)
    \/ HandleConnChannelsEnd(c)

\* ---------------------------------------------------------- specifications
\* Connection 1 established: handshake and greeting done, ssh_handleConn in
\* ssh_acceptChannels, newPeerConnection_ssh returned.
ConnEstablished ==
    /\ option = [acceptor |-> [OptName |-> <<97, 108>>, OptPrivateKey |-> "K1"],
                 dialer |-> [OptName |-> <<>>, OptPrivateKey |-> "K1"]]
    /\ lpc = "accepting"
    /\ listeners = {ListenerKey(ListenTyp, ListenAddr)}
    /\ unbinds = <<>>
    /\ inbound = [c \in Conns |-> NoOpens]
    /\ ranged = [c \in Conns |-> NoOpens]
    /\ rawConn = [c \in Conns |-> IF c = 1 THEN "open" ELSE "none"]
    /\ offer = [c \in Conns |-> IF c = 1
                    THEN [key |-> PublicKeyBytes("K1"), user |-> <<>>,
                          addr |-> "10.0.0.2:4000"]
                    ELSE NoOffer]
    /\ hpc = [c \in Conns |-> IF c = 1 THEN "acceptChannels" ELSE "none"]
    /\ hs = [c \in Conns |-> IF c = 1 THEN "ok" ELSE "none"]
    /\ greet = [c \in Conns |-> IF c = 1 THEN "ok" ELSE "none"]
    /\ conns = [a \in RemoteAddrs |-> IF a = "10.0.0.2:4000"
                    THEN [addr |-> "tcp://10.0.0.2:4000", name |-> <<>>, conn |-> 1]
                    ELSE NoConn]
    /\ lock = 0
    /\ reqs = [c \in Conns |-> IF c = 1
                    THEN <<GreetingRequest(<<97, 108>>, "acceptor")>> ELSE <<>>]
    /\ replies = [c \in Conns |-> IF c = 1 THEN <<"true">> ELSE <<>>]
    /\ dpc = [c \in Conns |-> IF c = 1 THEN "returned" ELSE "idle"]
    /\ rpc = [c \in Conns |-> IF c = 1 THEN "range" ELSE "none"]
    /\ rnext = [c \in Conns |-> IF c = 1 THEN 1 ELSE 0]
    /\ dconn = [c \in Conns |-> IF c = 1
                    THEN [addr |-> "tcp://10.0.0.1:22", name |-> <<97, 108>>, conn |-> 1]
                    ELSE NoConn]

\* Channels on an established connection: ssh_acceptChannels has been called.
Init ==
    /\ FrameIdle
    /\ ChanIdle
    /\ ConnEstablished

Next ==
    \/ \E a \in OpenArgs : Open(a.service, a.headers)
    \/ \E i \in 1..MaxOpens : OpenReturn(i)
    \/ \E o \in ForeignOpens : ForeignOpen(o)
    \/ AcceptLoop
    \/ \E i \in 1..MaxOpens :
          \/ HandlerExtraData(i)
          \/ HandlerUnmarshalService(i)
          \/ HandlerUnmarshalHeaders(i)
          \/ HandlerRejectParse(i)
          \/ HandlerCheckService(i)
          \/ HandlerRejectEmpty(i)
          \/ HandlerAccept(i)
          \/ HandlerCopyService(i)
          \/ HandlerPush(i)

Spec == Init /\ [][Next]_vars

\* Frames on a sub-channel of an established connection.
InitFrame == FrameIdle /\ ChanIdle /\ ConnEstablished

NextFrame ==
    \/ \E frame \in SeqsUpTo(PayloadBytes, MaxPayload) : WriteFrame(frame)
    \/ \E n \in 1..Len(stream) : ReadFrameHeader(n)
    \/ \E n \in 0..Len(stream) : ReadFrameBody(n)
    \/ \E m \in 0..Len(stream) : StreamEnd(m)
    \/ ReadFrameError

SpecFrame == InitFrame /\ [][NextFrame]_vars

\* One dial of this program (connection 1) to the listener of this program.
InitConn == FrameIdle /\ ChanNone /\ ConnIdle

NextConn ==
    \/ \E bound \in BOOLEAN : NewPeerListener(bound)
    \/ ListenerAcceptError
    \/ \E addr \in RemoteAddrs : Dial(1, addr)
    \/ DialHandshake(1)
    \/ RequestRange(1)
    \/ RequestRangeEnd(1)
    \/ NameCh(1)
    \/ RequestReply(1)
    \/ \E r \in RemoteRequests : RemoteRequest(1, r)
    \/ \E c \in Conns : ListenerAccept(c)
    \/ \E c \in Conns : HandleConn(c)
    \/ \E c \in Conns : TransportLost(c)

SpecConn == InitConn /\ [][NextConn]_vars

\* The listener of this program, with dialing sides that are not this program.
\* The first connection comes from the first remote address, later ones from
\* that address again or from the other one.
InitListen ==
    /\ InitConn
    /\ option.dialer = [OptName |-> <<>>, OptPrivateKey |-> "K1"]
    /\ option.acceptor.OptName = <<97, 108>>

NextListen ==
    \/ \E bound \in BOOLEAN : NewPeerListener(bound)
    \/ ListenerAcceptError
    \/ \E a \in RemoteAddrs : Disconnect(conns[a])
    \/ \E c \in Conns, pk \in PrivateKeys :
          \E addr \in (IF c = 1 THEN {"10.0.0.2:4000"} ELSE RemoteAddrs) :
              RemoteDial(c, PublicKeyBytes(pk), addr)
    \/ \E c \in Conns, ok \in BOOLEAN : RemoteReply(c, ok)
    \/ \E c \in Conns : ListenerAccept(c)
    \/ \E c \in Conns : HandleConn(c)
    \/ \E c \in Conns : TransportLost(c)

SpecListen == InitListen /\ [][NextListen]_vars

\* One dial of this program to the listener of this program, with the
\* channel-opens each side sends the other and the two dispatch loops.
InitDispatch ==
    /\ InitConn
    /\ option = [acceptor |-> [OptName |-> <<97, 108>>, OptPrivateKey |-> "K1"],
                 dialer |-> [OptName |-> <<>>, OptPrivateKey |-> "K1"]]

NextDispatch ==
    \/ NewPeerListener(TRUE)
    \/ Dial(1, "10.0.0.2:4000")
    \/ DialHandshake(1)
    \/ RequestRange(1)
    \/ RequestRangeEnd(1)
    \/ NameCh(1)
    \/ RequestReply(1)
    \/ \E r \in RemoteRequests : RemoteRequest(1, r)
    \/ ListenerAccept(1)
    \/ HandleConn(1)
    \/ TransportLost(1)
    \/ Disconnect(dconn[1])
    \/ \E side \in Sides : InboundOpen(1, side)
    \/ \E side \in Sides : AcceptChannelsRange(1, side)

SpecDispatch == InitDispatch /\ [][NextDispatch]_vars

\* ================================================================== claims
\* ------------------------------------------------ channels (specification Spec)
\* Every channel-open sent so far has been received by the loop and every
\* handler goroutine has finished.
Handled ==
    /\ newCh = Len(opens)
    /\ \A i \in 1..MaxOpens : handler[i].pc \in {"none", "done"}

\* A Channel wrapping the sub-channel of open i has been pushed.
Pushed(i) == \E k \in 1..Len(incomingCh) : incomingCh[k].ch = i

\* The extra data of open i decodes as {service, headers}.
Decodes(i) ==
    LET p == ParseString(opens[i].extraData)
    IN  p.ok /\ ParseNameList(p.rest).ok /\ ParseNameList(p.rest).rest = <<>>

DeclaredService(i) == ParseString(opens[i].extraData).s

\* All opens were issued by Open, with non-empty, pairwise distinct services.
DistinctServices ==
    /\ Len(opens) >= 1
    /\ \A i \in 1..Len(opens) :
          opens[i].by = "Open" /\ opens[i].meta.Service # <<>>
    /\ \A i, j \in 1..Len(opens) :
          i # j => opens[i].meta.Service # opens[j].meta.Service

\* C1: N concurrent @duplex opens with distinct non-empty services give, under
\* every interleaving of the handlers, exactly N pushed Channels, each wrapping
\* the sub-channel of one open and carrying the service and headers of that
\* same open.
C1_ConcurrentOpensPaired ==
    DistinctServices =>
        /\ \A k \in 1..Len(incomingCh) :
              /\ Service(incomingCh[k]) = opens[incomingCh[k].ch].meta.Service
              /\ Headers(incomingCh[k]) = opens[incomingCh[k].ch].meta.Headers
        /\ \A k, l \in 1..Len(incomingCh) :
              k # l => incomingCh[k].ch # incomingCh[l].ch
        /\ Handled => Len(incomingCh) = Len(opens)

\* C2: a @duplex open whose declared service is empty is never accepted, no
\* Channel is pushed for it, and once handled it has been rejected with the
\* message "empty service".
C2_EmptyServiceRejected ==
    \A i \in 1..Len(opens) :
        (opens[i].chanType = "@duplex" /\ Decodes(i) /\ DeclaredService(i) = <<>>) =>
            /\ decided[i].state # "accepted"
            /\ ~Pushed(i)
            /\ Handled => /\ decided[i].state = "rejected"
                          /\ decided[i].message = "empty service"

\* C3: a @duplex open whose metadata does not decode is never accepted, no
\* Channel is pushed for it, and once handled it has been rejected with the
\* unknown-channel-type reason and the message "failed to parse channel data".
C3_UndecodableRejected ==
    \A i \in 1..Len(opens) :
        (opens[i].chanType = "@duplex" /\ ~Decodes(i)) =>
            /\ decided[i].state # "accepted"
            /\ ~Pushed(i)
            /\ Handled => /\ decided[i].state = "rejected"
                          /\ decided[i].reason = "UnknownChannelType"
                          /\ decided[i].message = "failed to parse channel data"

\* C10: a Channel returned by Open has the service and headers passed to Open,
\* and the service and headers of every Channel, returned by Open or pushed to
\* the intake queue, are the same in every later state.
C10_OpenKeepsArguments ==
    \A i \in 1..Len(opened) :
        opened[i].state = "returned" =>
            /\ Service(opened[i].channel) = opens[i].meta.Service
            /\ Headers(opened[i].channel) = opens[i].meta.Headers
            /\ Marshal(opened[i].channel.ssh_channelData) = opens[i].extraData

C10_MetadataNeverChanges ==
    /\ \A k \in 1..Len(incomingCh) :
          /\ Len(incomingCh') >= k
          /\ incomingCh'[k].ch = incomingCh[k].ch
          /\ Service(incomingCh[k])' = Service(incomingCh[k])
          /\ Headers(incomingCh[k])' = Headers(incomingCh[k])
    /\ \A i \in 1..Len(opened) :
          opened[i].state = "returned" =>
              /\ opened'[i].state = "returned"
              /\ Service(opened[i].channel)' = Service(opened[i].channel)
              /\ Headers(opened[i].channel)' = Headers(opened[i].channel)

C10_MetadataImmutable == []C10_OpenKeepsArguments /\ [][C10_MetadataNeverChanges]_vars

\* A Channel was pushed and an Open returned its Channel, and a later decode
\* has since stored another service in the loop's meta.
C10_Witness ==
    /\ Len(incomingCh) >= 1
    /\ meta.Service # Service(incomingCh[1])
    /\ \E i \in 1..Len(opened) : opened[i].state = "returned"

\* ---------------------------------------------- frames (specification SpecFrame)
\* The payloads of a byte string read as length-prefixed frames.
RECURSIVE FramesOf(_)
FramesOf(w) ==
    IF Len(w) < 4 \/ Len(w) < 4 + Uint32(Take(w, 4)) THEN <<>>
    ELSE LET n == Uint32(Take(w, 4))
         IN  <<SubSeq(w, 5, 4 + n)>> \o FramesOf(Drop(w, 4 + n))

RECURSIVE TotalLen(_)
TotalLen(ps) == IF ps = <<>> THEN 0 ELSE 4 + Len(Head(ps)) + TotalLen(Tail(ps))

\* The bytes the stream delivers to the reader, now or later.
Received == Take(wire, Len(wire) - lost)

\* C15: ReadFrame never returns a partial frame as a success: the k-th
\* payload it returns without error is the k-th frame that the stream
\* delivered whole, of the declared length and with every byte received; and
\* when the stream has ended after part of a header or of a body no payload
\* is returned for that part: ReadFrame returns an error there, and only on a
\* stream that has ended.
C15_NoPartialFrame ==
    /\ \A k \in 1..Len(got) :
          /\ k <= Len(FramesOf(Received))
          /\ got[k].len = Len(FramesOf(Received)[k])
          /\ got[k].data = FramesOf(Received)[k]
    /\ fpc = "error" => streamEnd /\ stream = <<>>

\* C7: WriteFrame(P) puts the 4-byte big-endian length of P and then P on the
\* stream, and the k-th frame ReadFrame returns is the k-th payload written,
\* however the stream splits the bytes across the reads it serves.
C7_FrameRoundTrip ==
    /\ Len(wire) = TotalLen(wrote)
    /\ FramesOf(wire) = wrote
    /\ \A k \in 1..Len(got) :
          /\ k <= Len(wrote)
          /\ got[k].len = Len(wrote[k])
          /\ \A i \in 1..Len(wrote[k]) : BufAt(got[k], i) = wrote[k][i]

\* ------------------------------------ one dial (specification SpecConn)
\* The request goroutine of connection c has taken a @duplex-greeting request
\* whose payload decodes.
GreetingReceived(c) ==
    \E k \in 1..rnext[c] :
        /\ reqs[c][k].type = "@duplex-greeting"
        /\ UnmarshalGreeting(reqs[c][k].payload).ok

\* C4: newPeerConnection_ssh returns a connection only after a greeting
\* request has been received, and the connection's Name() is the display name
\* the accepting Peer is configured with.
C4_DialReturnsAfterGreeting ==
    \A c \in Conns :
        /\ dpc[c] = "returned" =>
              /\ GreetingReceived(c)
              /\ dconn[c].conn = c
              /\ Name(dconn[c]) = option.acceptor.OptName
        /\ dpc[c] # "returned" => dconn[c] = NoConn

\* The dial has returned a connection named after an accepting Peer whose name
\* differs from the dialing Peer's own, the greeting sent by ssh_handleConn
\* having been taken.
C4_Witness ==
    /\ dpc[1] = "returned"
    /\ Name(dconn[1]) = <<97, 108>>
    /\ option.dialer.OptName # option.acceptor.OptName
    /\ GreetingIndex(1) # 0 /\ GreetingIndex(1) <= rnext[1]

\* The request goroutine waits to send on nameCh after the one receive of
\* nameCh (line 184) has been done: it waits forever.
RequestsStuck(c) == rpc[c] = "nameCh" /\ dpc[c] = "returned"

\* C5: on the initiator side a request other than @duplex-greeting is never
\* replied to with true, is replied to with false when it is taken, and while
\* it waits on an open connection the request goroutine is able to reach it,
\* before the greeting, after it and after a further @duplex-greeting.
C5_OtherRequestsRefused ==
    \A c \in Conns : \A k \in 1..Len(reqs[c]) :
        reqs[c][k].type # "@duplex-greeting" =>
            /\ replies[c][k] # "true"
            /\ (replies[c][k] = "none" /\ rawConn[c] = "open") =>
                  /\ k > rnext[c]
                  /\ dpc[c] # "handshake" => rpc[c] \in {"range", "nameCh", "reply"}
                  /\ ~RequestsStuck(c)

\* The greeting of connection c failed: the send gave an error, the reply was
\* negative, or the initiator got a greeting payload that does not decode.
GreetingFailed(c) ==
    \/ greet[c] \in {"err", "nack"}
    \/ \E k \in 1..rnext[c] :
          /\ reqs[c][k].type = "@duplex-greeting"
          /\ ~UnmarshalGreeting(reqs[c][k].payload).ok

\* newPeerConnection_ssh waits on nameCh and the request goroutine, the only
\* sender, has ended: the dial waits forever.
DialStuck(c) == dpc[c] = "nameCh" /\ rpc[c] = "exited"

\* C9: a greeting failure ends the connection: when the send fails or is
\* negatively acknowledged ssh_handleConn has returned and closed the raw
\* connection without calling ssh_acceptChannels, and no greeting failure
\* leaves the dialer waiting forever.
C9_GreetingFailureEndsConnection ==
    \A c \in Conns :
        /\ greet[c] \in {"err", "nack"} =>
              hpc[c] = "returned" /\ rawConn[c] = "closed"
        /\ GreetingFailed(c) => ~DialStuck(c)

\* ------------------------------------ listener (specification SpecListen)
\* peer.conns holds a Peer Connection for connection c.
Registered(c) == \E a \in RemoteAddrs : conns[a].conn = c

KeyMatches(c) == offer[c].key = PublicKeyBytes(option.acceptor.OptPrivateKey)

\* C6: the handshake of a connection passes only if the offered key equals
\* the listener's public key byte for byte; with another key the handshake
\* fails, no Peer Connection is registered, no greeting is sent and
\* ssh_acceptChannels is never called; a matching key is never refused.
C6_OnlyConfiguredKeyAuthenticates ==
    \A c \in Conns :
        /\ hs[c] = "ok" => KeyMatches(c)
        /\ (rawConn[c] # "none" /\ ~KeyMatches(c)) =>
              /\ hpc[c] \in {"none", "handshake", "returned"}
              /\ hpc[c] = "returned" => hs[c] \in {"unauthorized", "ioerror"}
              /\ ~Registered(c)
              /\ reqs[c] = <<>>
              /\ greet[c] = "none"
        /\ (rawConn[c] # "none" /\ KeyMatches(c)) =>
              /\ hs[c] # "unauthorized"
              /\ (hpc[c] \notin {"none", "handshake"} /\ hs[c] # "ioerror") => hs[c] = "ok"

\* One connection was refused for its key and has been closed, another one
\* passed the handshake and is registered.
C6_Witness ==
    \E c, d \in Conns :
        /\ hs[c] = "unauthorized" /\ hpc[c] = "returned" /\ rawConn[c] = "closed"
        /\ hs[d] = "ok" /\ Registered(d)

\* C8: after ssh_handleConn has finished for a connection whose greeting
\* failed, peer.conns holds no Peer Connection for it.
C8_FailedGreetingNotRegistered ==
    \A c \in Conns :
        (hpc[c] = "returned" /\ greet[c] \in {"err", "nack"}) => ~Registered(c)

\* C11: the accept loop is never blocked by work on an accepted connection.
\* Whatever the other connections are doing (waiting in the handshake, waiting
\* for the greeting's acknowledgment, failed), a running accept loop is able
\* to accept a pending connection, and an accepted connection is able to take
\* its next step of handshake, registration, greeting and dispatch: the
\* Peer's lock, the one thing the handlers share, is only ever held by a
\* handler that is able to go on and release it.
C11_AcceptLoopNeverBlocked ==
    /\ lock # 0 => hpc[lock] \in {"store", "unlock"}
    /\ \A d \in Conns :
          /\ (lpc = "accepting" /\ rawConn[d] = "pending") => ENABLED ListenerAccept(d)
          /\ hpc[d] \in {"handshake", "store", "unlock", "greet"} => ENABLED HandleConn(d)
          /\ hpc[d] = "lock" =>
                \/ ENABLED HandleConnLock(d)
                \/ lock \in Conns \ {d} /\ ENABLED HandleConn(lock)
          /\ (hpc[d] = "reply" /\ replies[d][GreetingIndex(d)] # "none") =>
                ENABLED HandleConnReply(d)

\* One connection waits for its greeting's acknowledgment, which has not
\* come, or has been refused in the handshake, while another one has been
\* accepted and has reached channel dispatch.
C11_Witness ==
    \E c, d \in Conns :
        /\ c # d
        /\ \/ hpc[c] = "reply" /\ replies[c][GreetingIndex(c)] = "none"
           \/ hs[c] = "unauthorized"
        /\ hpc[d] = "acceptChannels"
        /\ lpc = "accepting"

\* What C13 says of every state: peer.Unbind is called by the loop at most
\* once, exactly when the loop has stopped, with the key tcp://10.0.0.1:22 of
\* this listener, which is then no longer filed; a failed bind starts no loop.
C13_UnboundOnce ==
    /\ Len(unbinds) <= 1
    /\ lpc = "stopped" <=> Len(unbinds) = 1
    /\ \A k \in 1..Len(unbinds) : unbinds[k] = "tcp://10.0.0.1:22"
    /\ lpc = "stopped" => "tcp://10.0.0.1:22" \notin listeners
    /\ lpc = "accepting" => "tcp://10.0.0.1:22" \in listeners
    /\ lpc = "bindError" =>
          /\ listeners = {}
          /\ unbinds = <<>>
          /\ \A c \in Conns : hpc[c] = "none"

\* What C13 says of every step: without a running loop no connection is
\* accepted, and a loop that stopped or never started stays so.
C13_NoAcceptAfterwards ==
    /\ lpc # "accepting" => \A c \in Conns : hpc[c] = "none" => hpc'[c] = "none"
    /\ lpc \in {"stopped", "bindError"} => lpc' = lpc

\* C13: when listener.Accept() fails after a successful bind the accept loop
\* stops, no connection is accepted afterwards, and the listener is
\* unregistered from the Peer exactly once under transportType://address; a
\* bind failure is returned from the call and no accept loop is started.
C13_AcceptFailureStopsLoop == []C13_UnboundOnce /\ [][C13_NoAcceptAfterwards]_vars

\* The loop has stopped after accepting one connection, and another
\* connection still waits to be accepted.
C13_Witness ==
    /\ lpc = "stopped"
    /\ unbinds = <<"tcp://10.0.0.1:22">>
    /\ \E c, d \in Conns : hpc[c] # "none" /\ rawConn[d] = "pending"

\* ------------------------------------------------ channels (specification Spec)
\* C12: every channel-open received on a connection whose accept loop runs,
\* of whatever type, gets a terminal response: once the loop has received
\* every open and every handler has finished, while the connection is up, no
\* open is left without having been accepted or rejected.
C12_EveryOpenAnswered ==
    (running /\ rawConn[1] = "open" /\ Handled) =>
        \A i \in 1..Len(opens) : decided[i].state \in {"accepted", "rejected"}

\* C14: a @duplex open whose metadata decodes and whose service is not empty
\* is never rejected and, once the loop has received every open and every
\* handler has finished, has been pushed to the intake queue, whatever other
\* opens are handled beside it; and a rejection leaves the connection open
\* and the accept loop running.
C14_ValidOpenDelivered ==
    /\ \A i \in 1..Len(opens) :
          (opens[i].chanType = "@duplex" /\ Decodes(i) /\ DeclaredService(i) # <<>>) =>
              /\ decided[i].state # "rejected"
              /\ Handled => Pushed(i)
    /\ (\E i \in 1..Len(opens) : decided[i].state = "rejected") =>
          running /\ rawConn[1] = "open"

\* ------------------------- greeting and dispatch (specification SpecDispatch)
\* How many @duplex-greeting requests ssh_handleConn has sent on connection c.
GreetingsSent(c) ==
    Cardinality({k \in 1..Len(reqs[c]) : reqs[c][k].from = "acceptor"})

\* C16: the accepting side sends the greeting once per connection, after the
\* handshake and before channel dispatch: its dispatch loop runs, and
\* receives a channel-open, only after the one greeting it sent has been
\* acknowledged with true; the dialing side's dispatch loop receives a
\* channel-open only after a greeting has been received and the dial has
\* returned.
C16_GreetingBeforeDispatch ==
    \A c \in Conns :
        /\ GreetingsSent(c) <= 1
        /\ GreetingsSent(c) = 1 => hs[c] = "ok"
        /\ hpc[c] \in {"none", "handshake", "lock", "store", "unlock", "greet"} =>
              GreetingsSent(c) = 0
        /\ (hpc[c] = "acceptChannels" \/ ranged[c]["acceptor"] > 0) =>
              /\ GreetingsSent(c) = 1
              /\ greet[c] = "ok"
              /\ replies[c][GreetingIndex(c)] = "true"
        /\ ranged[c]["dialer"] > 0 =>
              /\ GreetingReceived(c)
              /\ dpc[c] = "returned"

\* Both dispatch loops have received channel-opens, the accepting side's all
\* of them, after the one greeting was sent and acknowledged.
C16_Witness ==
    /\ ranged[1]["acceptor"] = MaxOpens
    /\ ranged[1]["dialer"] > 0
    /\ greet[1] = "ok"
    /\ GreetingsSent(1) = 1

\* ------------------------------------ listener (specification SpecListen)
\* C17: the registry holds live connections only: once a connection has been
\* closed, by the transport or by Disconnect, and its ssh_handleConn has
\* finished, peer.conns holds no entry for it.
C17_ClosedConnectionRemoved ==
    \A a \in RemoteAddrs :
        conns[a] # NoConn =>
            ~(rawConn[conns[a].conn] = "closed" /\ hpc[conns[a].conn] = "returned")

\* The handler of connection c is between peer.Lock() and peer.Unlock().
InRegistryWrite(c) == hpc[c] \in {"store", "unlock"}

\* What C18 says of every state: a handler is inside the registry write
\* exactly while it holds the Peer's lock, so no two are inside at once; when
\* its write is done its entry is there; and the entry of a connection that
\* passed the handshake stays until a later connection from the same remote
\* address is registered in its place.
C18_OneWriter ==
    /\ \A c \in Conns : InRegistryWrite(c) <=> lock = c
    /\ \A c, d \in Conns : (InRegistryWrite(c) /\ InRegistryWrite(d)) => c = d
    /\ \A c \in Conns :
          /\ hpc[c] = "unlock" => conns[offer[c].addr] = AcceptedConn(c)
          /\ (hs[c] = "ok" /\ hpc[c] \notin {"lock", "store"}) =>
                \E d \in Conns : /\ offer[d].addr = offer[c].addr
                                 /\ conns[offer[c].addr] = AcceptedConn(d)

\* What C18 says of every step: peer.conns changes only in a step of the
\* handler that holds the lock, which keeps it through the step.
C18_WriteHoldsLock ==
    conns' # conns => lock \in Conns /\ hpc[lock] = "store" /\ lock' = lock

\* C18: every mutation of the Peer's connection registry happens while the
\* mutating handler holds the Peer's lock, no two handlers are inside a
\* registry write at the same time, and no registration is lost.
C18_RegistryWritesUnderLock == []C18_OneWriter /\ [][C18_WriteHoldsLock]_vars

\* One handler has written its entry and still holds the lock while the
\* handler of a connection from another address waits for the lock.
C18_Witness ==
    \E c, d \in Conns :
        /\ hpc[c] = "unlock" /\ lock = c
        /\ hpc[d] = "lock"
        /\ offer[c].addr # offer[d].addr
        /\ conns[offer[c].addr] = AcceptedConn(c)

\* ------------------------------------------------ channels (specification Spec)
\* C19: the handler forked for a @duplex channel-open works on that same
\* open: the extra data it decodes and the sub-channel it accepts are that
\* open's, an open has a response only once its own handler has given it,
\* every @duplex open has its response when all handlers have finished, and
\* no open is pushed twice.
C19_HandlerAnswersOwnEvent ==
    /\ \A i \in 1..Len(opens) :
          /\ handler[i].pc = "service" => handler[i].data = opens[i].extraData
          /\ handler[i].ch \in {0, i}
          /\ decided[i].state # "none" => handler[i].pc \in {"push", "push2", "done"}
          /\ (Handled /\ opens[i].chanType = "@duplex") => decided[i].state # "none"
    /\ \A k, l \in 1..Len(incomingCh) :
          incomingCh[k].ch = incomingCh[l].ch => k = l

\* --------------------------------------- one dial (specification SpecConn)
\* C20: a dial whose handshake succeeded returns: as soon as a greeting that
\* decodes has been taken, the hand-over of the name on nameCh is ready or
\* done, after which the dial has returned the Peer Connection; and the dial
\* never waits on nameCh when the request stream has ended and nothing can
\* be sent on nameCh any more.
C20_DialReturns ==
    \A c \in Conns :
        /\ (GreetingReceived(c) /\ dpc[c] # "returned") =>
              dpc[c] = "nameCh" /\ rpc[c] = "nameCh"
        /\ ~(hs[c] = "ok" /\ dpc[c] = "nameCh" /\ rpc[c] = "exited")

====
